---- MODULE Spec2Model ----
(***************************************************************************)
(* LanceBot bidding engine (src/bidding.py): the two bidding strategies    *)
(* and the BiddingManager that keeps the per-auction records.              *)
(*                                                                         *)
(* Money is counted in mills (1/1000 of the currency unit), so 100.0 is    *)
(* 100000 and the default decrement 0.01 is 10; round(x, 2) rounds to a    *)
(* multiple of 10 mills.  min_decrease_percent is counted in tenths of a   *)
(* percent, so the 0.1 of the tests is 1.  All arithmetic is exact: a      *)
(* float that lies half way between two cents is rounded by Python         *)
(* according to its binary expansion, either way (round(100.005, 2) is     *)
(* 100.0, round(100.015, 2) is 100.02), so the direction of a tie is an    *)
(* input of the operation (tie).                                           *)
(*                                                                         *)
(* An Optional value is a sequence of length at most one: None is << >>.   *)
(* The 'timestamp' and 'start_time' fields (datetime.now()) and            *)
(* 'item_description' have no effect on any decision and are left out.     *)
(***************************************************************************)
EXTENDS Integers, Sequences, FiniteSets

VARIABLES
    active_auctions,      \* BiddingManager.active_auctions: id -> record
    last_bid_time_index,  \* TimedStrategy.last_bid_time_index, per instance
    fired,                \* per timed instance, the indices announced by should_bid
    ret,                  \* what the last call returned to its caller
    pc,                   \* concurrent callers: position inside process_bid
    loc,                  \* concurrent callers: arguments and locals
    args,                 \* the arguments of the last call made on a strategy itself
    countdown,            \* a polling loop: its should_bid calls so far, with results
    status                \* what the caller holds from its last get_auction_status

vars == <<active_auctions, last_bid_time_index, fired, ret, pc, loc, args, countdown, status>>

None == << >>
Some(v) == <<v>>

(***************************************************************************)
(* Bounds of the model.                                                    *)
(***************************************************************************)
\* process_bid is not called on an auction whose history has this many entries
MaxHistory == 2
\* register_auction is called with max_bids None or in 0..MaxCap
MaxCap == 2
\* a strategy is asked at most this many times in a row at one clock reading
MaxRun == 4

(***************************************************************************)
(* The strategy instances the callers create.                              *)
(***************************************************************************)
\* MinimalDecreaseStrategy(0.01, 0.1): the configuration of the tests
\* MinimalDecreaseStrategy(0.001): a decrement below half a cent
\* TimedStrategy([30, 10, 3]): descending thresholds, no random delay
\* TimedStrategy([10, 30]): thresholds out of order
\* TimedStrategy([30, 10], random_delay=True, max_random_delay=2)
\* TimedStrategy([60, 30, 10, 3]): the schedule of main.py and of the tests
\* TimedStrategy([10]): a single threshold
Strategies ==
    [ m_pct |-> [kind |-> "minimal", min_decrease_value |-> 10, min_decrease_percent |-> 1],
      m_sub |-> [kind |-> "minimal", min_decrease_value |-> 1, min_decrease_percent |-> 0],
      t_desc |-> [kind |-> "timed", bid_times |-> <<30, 10, 3>>, random_delay |-> FALSE,
                  max_random_delay |-> 5],
      t_mix |-> [kind |-> "timed", bid_times |-> <<10, 30>>, random_delay |-> FALSE,
                 max_random_delay |-> 5],
      t_rnd |-> [kind |-> "timed", bid_times |-> <<30, 10>>, random_delay |-> TRUE,
                 max_random_delay |-> 2],
      t_main |-> [kind |-> "timed", bid_times |-> <<60, 30, 10, 3>>, random_delay |-> FALSE,
                  max_random_delay |-> 5],
      t_one |-> [kind |-> "timed", bid_times |-> <<10>>, random_delay |-> FALSE,
                 max_random_delay |-> 5] ]

StrategyIds == DOMAIN Strategies
TimedIds == {s \in StrategyIds : Strategies[s].kind = "timed"}
MinimalIds == {s \in StrategyIds : Strategies[s].kind = "minimal"}

\* keyword arguments of process_bid that TimedStrategy.calculate_bid reads;
\* the first is the call without any (the defaults of the signature)
DefaultKw == [min_decrease_value |-> 10, min_decrease_percent |-> 0, aggressive_final_bid |-> FALSE]
KwArgs ==
    { DefaultKw,
      [min_decrease_value |-> 10, min_decrease_percent |-> 1, aggressive_final_bid |-> TRUE],
      [min_decrease_value |-> 1, min_decrease_percent |-> 0, aggressive_final_bid |-> FALSE] }

(***************************************************************************)
(* round(x, 2).  x is given in thousandths of a mill.                      *)
(***************************************************************************)
Round2(x, tie) ==
    LET q == x \div 10000
        r == x % 10000
    IN  IF 2 * r < 10000 THEN 10 * q
        ELSE IF 2 * r > 10000 THEN 10 * (q + 1)
        ELSE IF tie THEN 10 * (q + 1) ELSE 10 * q

(***************************************************************************)
(* MinimalDecreaseStrategy                                                 *)
(***************************************************************************)
\* mutant: the percent decrement is never used
MinimalCalculateBidFixedOnly(current_price, min_decrease_value, min_decrease_percent, tie) ==
    Round2(current_price * 1000 - min_decrease_value * 1000, tie)

\* calculate_bid: the larger of the fixed and the percent decrement, the
\* percent one only if strictly larger and configured positive
MinimalCalculateBid(current_price, min_decrease_value, min_decrease_percent, tie) ==
    LET percent_decrease == current_price * min_decrease_percent  \* thousandths of a mill
    IN  IF percent_decrease > min_decrease_value * 1000 /\ min_decrease_percent > 0
        THEN Round2(current_price * 1000 - percent_decrease, tie)
        ELSE Round2(current_price * 1000 - min_decrease_value * 1000, tie)

\* mutant: the rule about our own last bid is missing
MinimalShouldBidNoLead(current_price, my_last_bid, min_price) ==
    IF min_price # None /\ current_price <= min_price[1] THEN FALSE
    ELSE TRUE

\* mutant: both comparisons strict
MinimalShouldBidStrict(current_price, my_last_bid, min_price) ==
    IF my_last_bid # None /\ my_last_bid[1] < current_price THEN FALSE
    ELSE IF min_price # None /\ current_price < min_price[1] THEN FALSE
    ELSE TRUE

\* should_bid: not when we already hold the lowest price, not at or under min_price
MinimalShouldBid(current_price, my_last_bid, min_price) ==
    IF my_last_bid # None /\ my_last_bid[1] <= current_price THEN FALSE
    ELSE IF min_price # None /\ current_price <= min_price[1] THEN FALSE
    ELSE TRUE

(***************************************************************************)
(* TimedStrategy                                                           *)
(***************************************************************************)
\* the loop of should_bid from 0-based index i on: the first index whose
\* (delayed) threshold is reached and that lies after the cursor, or -1
RECURSIVE ScanFromNoCursor(_, _, _, _, _)
\* mutant: the scan forgets the cursor
ScanFromNoCursor(i, bid_times, cursor, seconds_remaining, delays) ==
    IF i >= Len(bid_times) THEN -1
    ELSE IF seconds_remaining <= bid_times[i + 1] + delays[i + 1] THEN i
    ELSE ScanFromNoCursor(i + 1, bid_times, cursor, seconds_remaining, delays)

RECURSIVE ScanFromStrict(_, _, _, _, _)
\* mutant: a threshold counts only once the clock is strictly under it
ScanFromStrict(i, bid_times, cursor, seconds_remaining, delays) ==
    IF i >= Len(bid_times) THEN -1
    ELSE IF seconds_remaining < bid_times[i + 1] + delays[i + 1] /\ i > cursor THEN i
    ELSE ScanFromStrict(i + 1, bid_times, cursor, seconds_remaining, delays)

RECURSIVE ScanFromLast(_, _, _, _, _)
\* mutant: the scan goes on to the last threshold that is reached
ScanFromLast(i, bid_times, cursor, seconds_remaining, delays) ==
    IF i >= Len(bid_times) THEN -1
    ELSE LET later == ScanFromLast(i + 1, bid_times, cursor, seconds_remaining, delays)
         IN  IF later # -1 THEN later
             ELSE IF seconds_remaining <= bid_times[i + 1] + delays[i + 1] /\ i > cursor THEN i
             ELSE -1

RECURSIVE ScanFrom(_, _, _, _, _)
ScanFrom(i, bid_times, cursor, seconds_remaining, delays) ==
    IF i >= Len(bid_times) THEN -1
    ELSE IF seconds_remaining <= bid_times[i + 1] + delays[i + 1] /\ i > cursor THEN i
    ELSE ScanFrom(i + 1, bid_times, cursor, seconds_remaining, delays)

\* should_bid of instance s: the index it fires, or -1 when it returns False
TimedFire(s, cursor, seconds_remaining, current_price, my_last_bid, min_price, delays) ==
    IF ~MinimalShouldBid(current_price, my_last_bid, min_price) THEN -1
    ELSE ScanFrom(0, Strategies[s].bid_times, cursor, seconds_remaining, delays)

\* mutant: the delay may exceed max_random_delay by one
DelaysWide(s) ==
    LET n == Len(Strategies[s].bid_times)
    IN  IF Strategies[s].kind = "minimal" THEN {<< >>}
        ELSE IF Strategies[s].random_delay
        THEN [1..n -> 0..(Strategies[s].max_random_delay + 1)]
        ELSE {[i \in 1..n |-> 0]}

\* the random delays should_bid may draw, one per threshold (none for a
\* minimal strategy)
Delays(s) ==
    LET n == Len(Strategies[s].bid_times)
    IN  IF Strategies[s].kind = "minimal" THEN {<< >>}
        ELSE IF Strategies[s].random_delay
        THEN [1..n -> 0..Strategies[s].max_random_delay]
        ELSE {[i \in 1..n |-> 0]}

\* mutant: aggressive only once the last threshold has fired
TimedCalculateBidLastOnly(s, cursor, current_price, kw, tie) ==
    IF kw.aggressive_final_bid /\ cursor >= Len(Strategies[s].bid_times) - 1
    THEN LET percent_decrease == current_price * (kw.min_decrease_percent * 2)
             value_decrease == kw.min_decrease_value * 2
         IN  IF percent_decrease > value_decrease * 1000 /\ kw.min_decrease_percent > 0
             THEN Round2(current_price * 1000 - percent_decrease, tie)
             ELSE Round2(current_price * 1000 - value_decrease * 1000, tie)
    ELSE MinimalCalculateBid(current_price, kw.min_decrease_value, kw.min_decrease_percent, tie)

\* calculate_bid of instance s with the cursor as should_bid left it
TimedCalculateBid(s, cursor, current_price, kw, tie) ==
    IF kw.aggressive_final_bid /\ cursor >= Len(Strategies[s].bid_times) - 2
    THEN LET percent_decrease == current_price * (kw.min_decrease_percent * 2)
             value_decrease == kw.min_decrease_value * 2
         IN  IF percent_decrease > value_decrease * 1000 /\ kw.min_decrease_percent > 0
             THEN Round2(current_price * 1000 - percent_decrease, tie)
             ELSE Round2(current_price * 1000 - value_decrease * 1000, tie)
    ELSE MinimalCalculateBid(current_price, kw.min_decrease_value, kw.min_decrease_percent, tie)

(***************************************************************************)
(* BiddingManager                                                          *)
(***************************************************************************)
\* what a call hands back: the operation, the kind of result and its value
Ret(op, kind, value) == [op |-> op, kind |-> kind, value |-> value]

\* mutant: the record starts with one bid counted
NewAuctionCounted(strategy, min_price, max_bids) ==
    [ strategy |-> strategy,
      min_price |-> min_price,
      max_bids |-> max_bids,
      bids_count |-> 1,
      last_bid |-> None,
      bid_history |-> << >> ]

\* the record register_auction stores
NewAuction(strategy, min_price, max_bids) ==
    [ strategy |-> strategy,
      min_price |-> min_price,
      max_bids |-> max_bids,
      bids_count |-> 0,
      last_bid |-> None,
      bid_history |-> << >> ]

\* mutant: the record is written under every id
StoreAll(auctions, auction_id, record) ==
    [x \in DOMAIN auctions \cup {auction_id} |-> record]

\* active_auctions with active_auctions[auction_id] = record
Store(auctions, auction_id, record) ==
    [x \in DOMAIN auctions \cup {auction_id} |->
        IF x = auction_id THEN record ELSE auctions[x]]

\* mutant: the cap compared with > instead of >=
CapReachedStrict(auction) ==
    auction.max_bids # None /\ auction.bids_count > auction.max_bids[1]

\* the maximum number of bids has been reached
CapReached(auction) ==
    auction.max_bids # None /\ auction.bids_count >= auction.max_bids[1]

\* mutant: the bid is counted but not appended to the history
AcceptedNoAppend(auction, bid_value, current_price) ==
    [auction EXCEPT !.last_bid = Some(bid_value), !.bids_count = @ + 1]

\* mutant: last_bid is set to the price instead of the bid
AcceptedLastIsPrice(auction, bid_value, current_price) ==
    [auction EXCEPT
        !.last_bid = Some(current_price),
        !.bids_count = @ + 1,
        !.bid_history = Append(@, [value |-> bid_value, current_price |-> current_price])]

\* mutant: the entry records the bid where the price at decision belongs
AcceptedPriceIsBid(auction, bid_value, current_price) ==
    [auction EXCEPT
        !.last_bid = Some(bid_value),
        !.bids_count = @ + 1,
        !.bid_history = Append(@, [value |-> bid_value, current_price |-> bid_value])]

\* the record after process_bid has taken bid_value at current_price
Accepted(auction, bid_value, current_price) ==
    [auction EXCEPT
        !.last_bid = Some(bid_value),
        !.bids_count = @ + 1,
        !.bid_history = Append(@, [value |-> bid_value, current_price |-> current_price])]

\* register_auction: stores a fresh record under auction_id, whatever was there
RegisterAuction(auction_id, strategy, min_price, max_bids) ==
    /\ active_auctions' = Store(active_auctions, auction_id,
                                NewAuction(strategy, min_price, max_bids))
    /\ ret' = Ret("register_auction", "none", 0)
    /\ UNCHANGED <<last_bid_time_index, fired, pc, loc>>

\* the index a timed strategy fires in process_bid, -1 for False; a minimal
\* strategy is given index 0 for True
Decision(auction, current_price, seconds_remaining, delays) ==
    IF Strategies[auction.strategy].kind = "minimal"
    THEN IF MinimalShouldBid(current_price, auction.last_bid, auction.min_price) THEN 0 ELSE -1
    ELSE TimedFire(auction.strategy, last_bid_time_index[auction.strategy],
                   seconds_remaining[1], current_price, auction.last_bid,
                   auction.min_price, delays)

\* strategy.calculate_bid(**strategy_params), the cursor being at index
BidValue(auction, index, current_price, kw, tie) ==
    IF Strategies[auction.strategy].kind = "minimal"
    THEN MinimalCalculateBid(current_price,
                             Strategies[auction.strategy].min_decrease_value,
                             Strategies[auction.strategy].min_decrease_percent, tie)
    ELSE TimedCalculateBid(auction.strategy, index, current_price, kw, tie)

\* mutant: every strategy insists on seconds_remaining
MissingArgumentAny(auction, seconds_remaining) ==
    seconds_remaining = None

\* TimedStrategy.should_bid has no default for seconds_remaining: a call
\* without it raises TypeError
MissingArgument(auction, seconds_remaining) ==
    Strategies[auction.strategy].kind = "timed" /\ seconds_remaining = None

\* mutant: the index is announced but the cursor stays
AdvanceKeepCursor(auction, index) ==
    IF Strategies[auction.strategy].kind = "timed"
    THEN /\ fired' = [fired EXCEPT ![auction.strategy] = Append(@, index)]
         /\ UNCHANGED last_bid_time_index
    ELSE UNCHANGED <<last_bid_time_index, fired>>

\* the cursor and the announcements after the strategy of auction fired index
Advance(auction, index) ==
    IF Strategies[auction.strategy].kind = "timed"
    THEN /\ last_bid_time_index' = [last_bid_time_index EXCEPT ![auction.strategy] = index]
         /\ fired' = [fired EXCEPT ![auction.strategy] = Append(@, index)]
    ELSE UNCHANGED <<last_bid_time_index, fired>>

\* mutant: the bid is counted before should_bid is consulted, so a refused
\* bid is counted too
ProcessBidCountsFirst(auction_id, current_price, seconds_remaining, kw, tie, delays) ==
    /\ UNCHANGED <<pc, loc>>
    /\ IF auction_id \notin DOMAIN active_auctions
       THEN /\ ret' = Ret("process_bid", "none", 0)
            /\ UNCHANGED <<active_auctions, last_bid_time_index, fired>>
       ELSE LET auction == active_auctions[auction_id] IN
            IF CapReached(auction)
            THEN /\ ret' = Ret("process_bid", "none", 0)
                 /\ UNCHANGED <<active_auctions, last_bid_time_index, fired>>
            ELSE IF MissingArgument(auction, seconds_remaining)
            THEN /\ ret' = Ret("process_bid", "error", 0)
                 /\ UNCHANGED <<active_auctions, last_bid_time_index, fired>>
            ELSE LET index == Decision(auction, current_price, seconds_remaining, delays) IN
                 IF index = -1
                 THEN /\ ret' = Ret("process_bid", "none", 0)
                      /\ active_auctions' =
                            Store(active_auctions, auction_id,
                                  [auction EXCEPT !.bids_count = @ + 1])
                      /\ UNCHANGED <<last_bid_time_index, fired>>
                 ELSE LET bid_value == BidValue(auction, index, current_price, kw, tie) IN
                      /\ Len(auction.bid_history) < MaxHistory
                      /\ Advance(auction, index)
                      /\ active_auctions' =
                            Store(active_auctions, auction_id,
                                  Accepted(auction, bid_value, current_price))
                      /\ ret' = Ret("process_bid", "bid", bid_value)

\* mutant: an unknown id gets a record on the fly (a defaultdict-like lookup)
ProcessBidImplicitRecord(auction_id, current_price, seconds_remaining, kw, tie, delays) ==
    /\ UNCHANGED <<pc, loc>>
    /\ IF auction_id \notin DOMAIN active_auctions
       THEN /\ ret' = Ret("process_bid", "none", 0)
            /\ active_auctions' =
                  Store(active_auctions, auction_id, NewAuction("m_pct", None, None))
            /\ UNCHANGED <<last_bid_time_index, fired>>
       ELSE LET auction == active_auctions[auction_id] IN
            IF CapReached(auction)
            THEN /\ ret' = Ret("process_bid", "none", 0)
                 /\ UNCHANGED <<active_auctions, last_bid_time_index, fired>>
            ELSE IF MissingArgument(auction, seconds_remaining)
            THEN /\ ret' = Ret("process_bid", "error", 0)
                 /\ UNCHANGED <<active_auctions, last_bid_time_index, fired>>
            ELSE LET index == Decision(auction, current_price, seconds_remaining, delays) IN
                 IF index = -1
                 THEN /\ ret' = Ret("process_bid", "none", 0)
                      /\ UNCHANGED <<active_auctions, last_bid_time_index, fired>>
                 ELSE LET bid_value == BidValue(auction, index, current_price, kw, tie) IN
                      /\ Len(auction.bid_history) < MaxHistory
                      /\ Advance(auction, index)
                      /\ active_auctions' =
                            Store(active_auctions, auction_id,
                                  Accepted(auction, bid_value, current_price))
                      /\ ret' = Ret("process_bid", "bid", bid_value)

\* process_bid, run from its first line to its return by one caller
ProcessBid(auction_id, current_price, seconds_remaining, kw, tie, delays) ==
    /\ UNCHANGED <<pc, loc>>
    /\ IF auction_id \notin DOMAIN active_auctions
       THEN /\ ret' = Ret("process_bid", "none", 0)
            /\ UNCHANGED <<active_auctions, last_bid_time_index, fired>>
       ELSE LET auction == active_auctions[auction_id] IN
            IF CapReached(auction)
            THEN /\ ret' = Ret("process_bid", "none", 0)
                 /\ UNCHANGED <<active_auctions, last_bid_time_index, fired>>
            ELSE IF MissingArgument(auction, seconds_remaining)
            THEN /\ ret' = Ret("process_bid", "error", 0)
                 /\ UNCHANGED <<active_auctions, last_bid_time_index, fired>>
            ELSE LET index == Decision(auction, current_price, seconds_remaining, delays) IN
                 IF index = -1
                 THEN /\ ret' = Ret("process_bid", "none", 0)
                      /\ UNCHANGED <<active_auctions, last_bid_time_index, fired>>
                 ELSE LET bid_value == BidValue(auction, index, current_price, kw, tie) IN
                      /\ Len(auction.bid_history) < MaxHistory
                      /\ Advance(auction, index)
                      /\ active_auctions' =
                            Store(active_auctions, auction_id,
                                  Accepted(auction, bid_value, current_price))
                      /\ ret' = Ret("process_bid", "bid", bid_value)

\* get_auction_status: the stored record itself, or {}
GetAuctionStatus(auction_id) ==
    /\ ret' = IF auction_id \in DOMAIN active_auctions
              THEN Ret("get_auction_status", "record", 0)
              ELSE Ret("get_auction_status", "empty", 0)
    /\ UNCHANGED <<active_auctions, last_bid_time_index, fired, pc, loc>>

\* mutant: removing one auction clears the registry
RemoveAuctionAll(auction_id) ==
    /\ IF auction_id \in DOMAIN active_auctions
       THEN /\ active_auctions' = << >>
            /\ ret' = Ret("remove_auction", "bool", 1)
       ELSE /\ UNCHANGED active_auctions
            /\ ret' = Ret("remove_auction", "bool", 0)
    /\ UNCHANGED <<last_bid_time_index, fired, pc, loc>>

\* remove_auction
RemoveAuction(auction_id) ==
    /\ IF auction_id \in DOMAIN active_auctions
       THEN /\ active_auctions' =
                 [x \in DOMAIN active_auctions \ {auction_id} |-> active_auctions[x]]
            /\ ret' = Ret("remove_auction", "bool", 1)
       ELSE /\ UNCHANGED active_auctions
            /\ ret' = Ret("remove_auction", "bool", 0)
    /\ UNCHANGED <<last_bid_time_index, fired, pc, loc>>

\* a caller asks a timed strategy directly (main.py, test_bidding_strategy)
TimedShouldBid(s, seconds_remaining, current_price, my_last_bid, min_price, delays) ==
    LET index == TimedFire(s, last_bid_time_index[s], seconds_remaining, current_price,
                           my_last_bid, min_price, delays) IN
    /\ IF index = -1
       THEN /\ ret' = Ret("should_bid", "bool", 0)
            /\ UNCHANGED <<last_bid_time_index, fired>>
       ELSE /\ last_bid_time_index' = [last_bid_time_index EXCEPT ![s] = index]
            /\ fired' = [fired EXCEPT ![s] = Append(@, index)]
            /\ ret' = Ret("should_bid", "bool", 1)
    /\ UNCHANGED <<active_auctions, pc, loc>>

(***************************************************************************)
(* One sequential caller, one auction id.                                  *)
(***************************************************************************)
Threads == {1, 2}
NoLocals ==
    [ price |-> 0, seconds |-> None, tie |-> FALSE, my_last_bid |-> None,
      index |-> -1, bid_value |-> 0, count |-> 0, result |-> "running" ]

AuctionIds == {"A"}
Prices == {90000, 90010, 100000, 100007, 100015}
Floors == {None, Some(90000)}
Caps == {None} \cup {Some(n) : n \in 0..MaxCap}
Seconds == {None, Some(40), Some(30), Some(10), Some(3)}
SpecStrategies == {"m_pct", "m_sub", "t_desc"}

\* no call made on a strategy itself yet
NoArgs ==
    [ strategy |-> "", current_price |-> 0, my_last_bid |-> None, min_price |-> None,
      seconds_remaining |-> None, kw |-> DefaultKw ]

\* nothing held from get_auction_status yet
NoStatus == [alias |-> None, value |-> << >>]

\* the variables only the other specifications use
Fresh ==
    /\ args = NoArgs
    /\ countdown = << >>
    /\ status = NoStatus

Init ==
    /\ active_auctions = << >>
    /\ last_bid_time_index = [s \in TimedIds |-> -1]
    /\ fired = [s \in TimedIds |-> << >>]
    /\ ret = Ret("init", "none", 0)
    /\ pc = [t \in Threads |-> "idle"]
    /\ loc = [t \in Threads |-> NoLocals]
    /\ Fresh

\* a call of this specification leaves the other specifications' variables alone
Aside == UNCHANGED <<args, countdown, status>>

Next ==
    \/ \E id \in AuctionIds, s \in SpecStrategies, f \in Floors, c \in Caps :
          RegisterAuction(id, s, f, c) /\ Aside
    \/ \E id \in AuctionIds, p \in Prices, sec \in Seconds, kw \in KwArgs, tie \in BOOLEAN :
          \E d \in (IF id \in DOMAIN active_auctions
                    THEN Delays(active_auctions[id].strategy) ELSE {<< >>}) :
             ProcessBid(id, p, sec, kw, tie, d) /\ Aside
    \/ \E id \in AuctionIds : GetAuctionStatus(id) /\ Aside
    \/ \E id \in AuctionIds : RemoveAuction(id) /\ Aside
    \/ \E s \in SpecStrategies \cap TimedIds, sec \in Seconds \ {None}, p \in Prices :
          \E d \in Delays(s) : TimedShouldBid(s, sec[1], p, None, Some(90000), d) /\ Aside

Spec == Init /\ [][Next]_vars

(***************************************************************************)
(* Two callers inside process_bid for the same auction id at once.  The    *)
(* manager holds no lock (__init__ creates only the logger and the dict),  *)
(* so a thread switch may fall between any two statements, and between the *)
(* read and the write of  auction['bids_count'] += 1.                      *)
(***************************************************************************)
ConcId == "A"
ConcPrices == {100000, 100007}
ConcSeconds == {None, Some(30), Some(3)}
ConcCaps == {None, Some(1), Some(2)}

\* a caller enters process_bid(ConcId, current_price, seconds_remaining) and
\* looks the auction up
Call(t, current_price, seconds_remaining, tie) ==
    /\ pc[t] = "idle"
    /\ loc' = [loc EXCEPT ![t] = [NoLocals EXCEPT
                    !.price = current_price,
                    !.seconds = seconds_remaining,
                    !.tie = tie,
                    !.result = IF ConcId \in DOMAIN active_auctions
                               THEN "running" ELSE "none"]]
    /\ pc' = [pc EXCEPT ![t] = IF ConcId \in DOMAIN active_auctions THEN "cap" ELSE "done"]
    /\ UNCHANGED <<active_auctions, last_bid_time_index, fired, ret>>

\* the check of max_bids
CheckCap(t) ==
    /\ pc[t] = "cap"
    /\ IF CapReached(active_auctions[ConcId])
       THEN /\ pc' = [pc EXCEPT ![t] = "done"]
            /\ loc' = [loc EXCEPT ![t].result = "none"]
       ELSE /\ pc' = [pc EXCEPT ![t] = "params"]
            /\ UNCHANGED loc
    /\ UNCHANGED <<active_auctions, last_bid_time_index, fired, ret>>

\* strategy_params is assembled: last_bid is read here
Params(t) ==
    /\ pc[t] = "params"
    /\ loc' = [loc EXCEPT ![t].my_last_bid = active_auctions[ConcId].last_bid]
    /\ pc' = [pc EXCEPT ![t] = "should"]
    /\ UNCHANGED <<active_auctions, last_bid_time_index, fired, ret>>

\* strategy.should_bid(**strategy_params)
CallShouldBid(t) ==
    /\ pc[t] = "should"
    /\ LET auction == [active_auctions[ConcId] EXCEPT !.last_bid = loc[t].my_last_bid] IN
       IF MissingArgument(auction, loc[t].seconds)
       THEN /\ pc' = [pc EXCEPT ![t] = "done"]
            /\ loc' = [loc EXCEPT ![t].result = "error"]
            /\ UNCHANGED <<last_bid_time_index, fired>>
       ELSE \E d \in Delays(auction.strategy) :
            LET index == Decision(auction, loc[t].price, loc[t].seconds, d) IN
            IF index = -1
            THEN /\ pc' = [pc EXCEPT ![t] = "done"]
                 /\ loc' = [loc EXCEPT ![t].result = "none"]
                 /\ UNCHANGED <<last_bid_time_index, fired>>
            ELSE /\ pc' = [pc EXCEPT ![t] = "calc"]
                 /\ loc' = [loc EXCEPT ![t].index = index]
                 /\ Advance(auction, index)
    /\ UNCHANGED <<active_auctions, ret>>

\* strategy.calculate_bid(**strategy_params): the cursor is read again
CallCalculateBid(t) ==
    /\ pc[t] = "calc"
    /\ LET auction == active_auctions[ConcId]
           cursor == IF Strategies[auction.strategy].kind = "timed"
                     THEN last_bid_time_index[auction.strategy] ELSE 0
       IN  loc' = [loc EXCEPT ![t].bid_value =
                      BidValue(auction, cursor, loc[t].price, DefaultKw, loc[t].tie)]
    /\ pc' = [pc EXCEPT ![t] = "set_last"]
    /\ UNCHANGED <<active_auctions, last_bid_time_index, fired, ret>>

\* auction['last_bid'] = bid_value
SetLastBid(t) ==
    /\ pc[t] = "set_last"
    /\ active_auctions' = [active_auctions EXCEPT ![ConcId].last_bid = Some(loc[t].bid_value)]
    /\ pc' = [pc EXCEPT ![t] = "load_count"]
    /\ UNCHANGED <<last_bid_time_index, fired, ret, loc>>

\* auction['bids_count'] += 1, the read
LoadCount(t) ==
    /\ pc[t] = "load_count"
    /\ loc' = [loc EXCEPT ![t].count = active_auctions[ConcId].bids_count]
    /\ pc' = [pc EXCEPT ![t] = "store_count"]
    /\ UNCHANGED <<active_auctions, last_bid_time_index, fired, ret>>

\* auction['bids_count'] += 1, the write
StoreCount(t) ==
    /\ pc[t] = "store_count"
    /\ active_auctions' = [active_auctions EXCEPT ![ConcId].bids_count = loc[t].count + 1]
    /\ pc' = [pc EXCEPT ![t] = "append"]
    /\ UNCHANGED <<last_bid_time_index, fired, ret, loc>>

\* auction['bid_history'].append(...), then the return
AppendHistory(t) ==
    /\ pc[t] = "append"
    /\ active_auctions' = [active_auctions EXCEPT ![ConcId].bid_history =
                              Append(@, [value |-> loc[t].bid_value,
                                         current_price |-> loc[t].price])]
    /\ pc' = [pc EXCEPT ![t] = "done"]
    /\ loc' = [loc EXCEPT ![t].result = "bid"]
    /\ UNCHANGED <<last_bid_time_index, fired, ret>>

InitConc ==
    /\ \E s \in SpecStrategies, f \in Floors, c \in ConcCaps :
          active_auctions = Store(<< >>, ConcId, NewAuction(s, f, c))
    /\ last_bid_time_index = [s \in TimedIds |-> -1]
    /\ fired = [s \in TimedIds |-> << >>]
    /\ ret = Ret("register_auction", "none", 0)
    /\ pc = [t \in Threads |-> "idle"]
    /\ loc = [t \in Threads |-> NoLocals]
    /\ Fresh

NextConc ==
    \E t \in Threads :
        \/ \E p \in ConcPrices, sec \in ConcSeconds, tie \in BOOLEAN :
              Call(t, p, sec, tie) /\ Aside
        \/ CheckCap(t) /\ Aside
        \/ Params(t) /\ Aside
        \/ CallShouldBid(t) /\ Aside
        \/ CallCalculateBid(t) /\ Aside
        \/ SetLastBid(t) /\ Aside
        \/ LoadCount(t) /\ Aside
        \/ StoreCount(t) /\ Aside
        \/ AppendHistory(t) /\ Aside

SpecConc == InitConc /\ [][NextConc]_vars

(***************************************************************************)
(* The strategies called on their own, as test_bidding.py and main.py do:  *)
(* no manager, the caller passes my_last_bid and min_price itself.  args   *)
(* keeps the arguments of the last call.                                   *)
(***************************************************************************)
PolicyStrategies == {"m_pct", "m_sub", "t_desc", "t_mix"}
PolicyPrices == {10000, 15000, 90000, 100000, 100007}
PolicyLastBids == {None, Some(100000)}
PolicySeconds == {40, 10, 3}

\* strategy.should_bid(...), on either class
ShouldBid(s, seconds_remaining, current_price, my_last_bid, min_price, delays) ==
    /\ args' = [ strategy |-> s, current_price |-> current_price,
                 my_last_bid |-> my_last_bid, min_price |-> min_price,
                 seconds_remaining |-> seconds_remaining, kw |-> DefaultKw ]
    /\ IF s \in MinimalIds
       THEN /\ ret' = Ret("should_bid", "bool",
                          IF MinimalShouldBid(current_price, my_last_bid, min_price)
                          THEN 1 ELSE 0)
            /\ UNCHANGED <<active_auctions, last_bid_time_index, fired, pc, loc>>
       ELSE TimedShouldBid(s, seconds_remaining[1], current_price, my_last_bid,
                           min_price, delays)
    /\ UNCHANGED <<countdown, status>>

\* strategy.calculate_bid(...), on either class; a minimal strategy takes
\* its decrements from the instance, a timed one from the keyword arguments
CalculateBid(s, current_price, kw, tie) ==
    /\ args' = [ strategy |-> s, current_price |-> current_price,
                 my_last_bid |-> None, min_price |-> None,
                 seconds_remaining |-> None, kw |-> kw ]
    /\ ret' = Ret("calculate_bid", "bid",
                  IF s \in MinimalIds
                  THEN MinimalCalculateBid(current_price, Strategies[s].min_decrease_value,
                                           Strategies[s].min_decrease_percent, tie)
                  ELSE TimedCalculateBid(s, last_bid_time_index[s], current_price, kw, tie))
    /\ UNCHANGED <<active_auctions, last_bid_time_index, fired, pc, loc, countdown, status>>

NextPolicy ==
    \/ \E s \in PolicyStrategies, p \in PolicyPrices, b \in PolicyLastBids, f \in Floors :
          \E sec \in (IF s \in MinimalIds THEN {None} ELSE {Some(n) : n \in PolicySeconds}) :
             \E d \in Delays(s) : ShouldBid(s, sec, p, b, f, d)
    \/ \E s \in PolicyStrategies, p \in PolicyPrices, tie \in BOOLEAN :
          \E kw \in (IF s \in MinimalIds THEN {DefaultKw} ELSE KwArgs) :
             CalculateBid(s, p, kw, tie)

SpecPolicy == Init /\ [][NextPolicy]_vars

(***************************************************************************)
(* The polling loop of main.py (test_bidding_strategy): one timed strategy *)
(* asked at a falling clock, price 100.0, my_last_bid None, min_price      *)
(* 90.0.  The loop may miss ticks: each poll is at a later entry of the    *)
(* clock readings than the one before.                                     *)
(***************************************************************************)
Clock == <<120, 60, 40, 30, 15, 10, 5, 3, 1>>

\* the position in Clock of the last poll (0 before the first)
Polled ==
    IF countdown = << >> THEN 0
    ELSE CHOOSE i \in 1..Len(Clock) : Clock[i] = countdown[Len(countdown)].seconds

\* one pass of the loop body: should_bid at Clock[i], the answer noted
Poll(i) ==
    /\ i > Polled
    /\ TimedShouldBid("t_main", Clock[i], 100000, None, Some(90000),
                      [k \in 1..Len(Strategies["t_main"].bid_times) |-> 0])
    /\ countdown' = Append(countdown, [seconds |-> Clock[i], should_bid |-> ret'.value])
    /\ UNCHANGED <<args, status>>

NextCountdown == \E i \in 1..Len(Clock) : Poll(i)

SpecCountdown == Init /\ [][NextCountdown]_vars

(***************************************************************************)
(* A caller that keeps what get_auction_status returned.  The method       *)
(* returns self.active_auctions[auction_id], the stored dict itself, so    *)
(* the held value is that dict for as long as the manager keeps it under   *)
(* the id: process_bid writes into it in place, register_auction puts a    *)
(* new dict under the id and remove_auction deletes the entry, after which *)
(* the held dict is no longer the manager's.                               *)
(***************************************************************************)
HeldPrices == {90010, 100000, 100007}

\* status = manager.get_auction_status(auction_id)
GetAuctionStatusHeld(auction_id) ==
    /\ GetAuctionStatus(auction_id)
    /\ status' = IF auction_id \in DOMAIN active_auctions
                 THEN [alias |-> Some(auction_id), value |-> active_auctions[auction_id]]
                 ELSE [alias |-> None, value |-> << >>]
    /\ UNCHANGED <<args, countdown>>

\* process_bid while the caller holds a status
ProcessBidHeld(auction_id, current_price, tie) ==
    /\ ProcessBid(auction_id, current_price, None, DefaultKw, tie, << >>)
    /\ status' = IF status.alias = Some(auction_id)
                 THEN [status EXCEPT !.value = active_auctions'[auction_id]]
                 ELSE status
    /\ UNCHANGED <<args, countdown>>

\* register_auction while the caller holds a status
RegisterAuctionHeld(auction_id, strategy, min_price, max_bids) ==
    /\ RegisterAuction(auction_id, strategy, min_price, max_bids)
    /\ status' = IF status.alias = Some(auction_id)
                 THEN [status EXCEPT !.alias = None] ELSE status
    /\ UNCHANGED <<args, countdown>>

\* remove_auction while the caller holds a status
RemoveAuctionHeld(auction_id) ==
    /\ RemoveAuction(auction_id)
    /\ status' = IF status.alias = Some(auction_id)
                 THEN [status EXCEPT !.alias = None] ELSE status
    /\ UNCHANGED <<args, countdown>>

NextHeld ==
    \/ \E id \in AuctionIds : GetAuctionStatusHeld(id)
    \/ \E id \in AuctionIds, p \in HeldPrices, tie \in BOOLEAN : ProcessBidHeld(id, p, tie)
    \/ \E id \in AuctionIds, s \in MinimalIds, f \in Floors, c \in Caps :
          RegisterAuctionHeld(id, s, f, c)
    \/ \E id \in AuctionIds : RemoveAuctionHeld(id)

SpecHeld == Init /\ [][NextHeld]_vars

(***************************************************************************)
(* Two auction ids under one manager.  Two auctions registered with the    *)
(* same strategy name hold the same instance (register_auction stores the  *)
(* object it is given), so a timed strategy's cursor is shared by them.    *)
(* args keeps the arguments of the last call and, for process_bid, what    *)
(* it put into strategy_params from the record (lines 331-335): with the   *)
(* id unknown or the cap reached nothing is assembled.                     *)
(***************************************************************************)
TwoIds == {"A", "B"}
TwoStrategies == {"m_pct", "t_mix", "t_one"}
TwoFloors == {Some(90000)}
TwoCaps == {None, Some(1)}
TwoPrices == {99000, 100000}
TwoSeconds == {None, Some(10)}

\* the arguments of a manager call that assembles no strategy_params
CallOn(auction_id, strategy, min_price, max_bids) ==
    [ auction_id |-> auction_id, strategy |-> strategy, current_price |-> 0,
      my_last_bid |-> None, min_price |-> min_price, max_bids |-> max_bids,
      seconds_remaining |-> None, kw |-> DefaultKw ]

RegisterAuctionTwo(auction_id, strategy, min_price, max_bids) ==
    /\ RegisterAuction(auction_id, strategy, min_price, max_bids)
    /\ args' = CallOn(auction_id, strategy, min_price, max_bids)
    /\ UNCHANGED <<countdown, status>>

ProcessBidTwo(auction_id, current_price, seconds_remaining) ==
    /\ \E d \in (IF auction_id \in DOMAIN active_auctions
                  THEN Delays(active_auctions[auction_id].strategy) ELSE {<< >>}) :
          ProcessBid(auction_id, current_price, seconds_remaining, DefaultKw, FALSE, d)
    /\ args' = IF auction_id \in DOMAIN active_auctions
                  /\ ~CapReached(active_auctions[auction_id])
               THEN [ auction_id |-> auction_id,
                      strategy |-> active_auctions[auction_id].strategy,
                      current_price |-> current_price,
                      my_last_bid |-> active_auctions[auction_id].last_bid,
                      min_price |-> active_auctions[auction_id].min_price,
                      max_bids |-> None,
                      seconds_remaining |-> seconds_remaining,
                      kw |-> DefaultKw ]
               ELSE [CallOn(auction_id, "", None, None) EXCEPT
                        !.current_price = current_price,
                        !.seconds_remaining = seconds_remaining]
    /\ UNCHANGED <<countdown, status>>

GetAuctionStatusTwo(auction_id) ==
    /\ GetAuctionStatus(auction_id)
    /\ args' = CallOn(auction_id, "", None, None)
    /\ UNCHANGED <<countdown, status>>

RemoveAuctionTwo(auction_id) ==
    /\ RemoveAuction(auction_id)
    /\ args' = CallOn(auction_id, "", None, None)
    /\ UNCHANGED <<countdown, status>>

NextTwo ==
    \/ \E id \in TwoIds, s \in TwoStrategies, f \in TwoFloors, c \in TwoCaps :
          RegisterAuctionTwo(id, s, f, c)
    \/ \E id \in TwoIds, p \in TwoPrices, sec \in TwoSeconds : ProcessBidTwo(id, p, sec)
    \/ \E id \in TwoIds : GetAuctionStatusTwo(id)
    \/ \E id \in TwoIds : RemoveAuctionTwo(id)

SpecTwo == Init /\ [][NextTwo]_vars

(***************************************************************************)
(* Timed strategies called on their own at any clock reading, in any       *)
(* order, the caller holding no bid (my_last_bid None) and the floor at    *)
(* 90.0 as in main.py.  countdown keeps the answers of the calls made in   *)
(* a row on one strategy at one clock reading, as long as the two rules    *)
(* of should_bid were not against a bid.                                   *)
(***************************************************************************)
ScanStrategies == {"t_desc", "t_mix", "t_rnd"}
ScanSeconds == {40, 33, 32, 20, 12, 10, 3}
ScanPrices == {90000, 100000}

\* the calls so far in a row on s at seconds_remaining
Run(s, seconds_remaining) ==
    IF args.strategy = s /\ args.seconds_remaining = Some(seconds_remaining)
    THEN countdown ELSE << >>

ShouldBidScan(s, seconds_remaining, current_price, delays) ==
    LET min_price == Some(90000) IN
    /\ Len(Run(s, seconds_remaining)) < MaxRun
    /\ TimedShouldBid(s, seconds_remaining, current_price, None, min_price, delays)
    /\ args' = [ strategy |-> s, current_price |-> current_price,
                 my_last_bid |-> None, min_price |-> min_price,
                 seconds_remaining |-> Some(seconds_remaining), kw |-> DefaultKw ]
    /\ countdown' =
          IF MinimalShouldBid(current_price, None, min_price)
          THEN Append(Run(s, seconds_remaining),
                      [seconds |-> seconds_remaining, should_bid |-> ret'.value])
          ELSE << >>
    /\ UNCHANGED status

NextScan ==
    \E s \in ScanStrategies, sec \in ScanSeconds, p \in ScanPrices :
       \E d \in Delays(s) : ShouldBidScan(s, sec, p, d)

SpecScan == Init /\ [][NextScan]_vars

(***************************************************************************)
(* Properties                                                              *)
(***************************************************************************)
Registered == DOMAIN active_auctions

IsPrefix(h, g) == Len(h) <= Len(g) /\ \A i \in 1..Len(h) : h[i] = g[i]

\* C1. Cap invariant: between the calls of a sequential caller, every
\* registered auction with max_bids set has bids_count <= max_bids.
C1_CapInvariant ==
    \A id \in Registered :
        active_auctions[id].max_bids # None =>
            active_auctions[id].bids_count <= active_auctions[id].max_bids[1]

\* C1 witness: an auction filled up to a positive cap, and a process_bid
\* just turned away
C1_Witness ==
    /\ ret = Ret("process_bid", "none", 0)
    /\ \E id \in Registered :
          /\ active_auctions[id].max_bids = Some(2)
          /\ active_auctions[id].bids_count = 2

\* C2. Floor invariant: every bid process_bid accepted on an auction with
\* min_price set is strictly greater than min_price.
C2_FloorInvariant ==
    \A id \in Registered :
        active_auctions[id].min_price # None =>
            \A i \in 1..Len(active_auctions[id].bid_history) :
                active_auctions[id].bid_history[i].value > active_auctions[id].min_price[1]

\* C3. Every accepted bid is strictly less than the current_price it was
\* computed from.
C3_BidBelowPrice ==
    \A id \in Registered :
        \A i \in 1..Len(active_auctions[id].bid_history) :
            active_auctions[id].bid_history[i].value
                < active_auctions[id].bid_history[i].current_price

\* C4. Idempotence: a process_bid on an auction whose last_bid is set and
\* <= current_price produces no bid and leaves the record unchanged (a
\* raised error counts as no bid here); and a process_bid at the price of
\* the bid just accepted produces no bid.
C4_Idempotence ==
    [][\A id \in AuctionIds, p \in Prices, sec \in Seconds, kw \in KwArgs, tie \in BOOLEAN :
          (/\ id \in Registered
           /\ \E d \in Delays(active_auctions[id].strategy) : ProcessBid(id, p, sec, kw, tie, d)
           /\ \/ /\ active_auctions[id].last_bid # None
                 /\ active_auctions[id].last_bid[1] <= p
              \/ /\ ret.op = "process_bid"
                 /\ ret.kind = "bid"
                 /\ active_auctions[id].bid_history # << >>
                 /\ active_auctions[id].bid_history[Len(active_auctions[id].bid_history)]
                        .current_price = p)
          => (ret'.kind # "bid" /\ active_auctions' = active_auctions)]_vars

\* C5. TimedStrategy monotonicity: over any sequence of should_bid calls the
\* cursor of an instance never decreases, and the index a call fires has
\* not been fired by that instance before.
C5_CursorMonotone ==
    [][\A s \in TimedIds :
          /\ last_bid_time_index'[s] >= last_bid_time_index[s]
          /\ fired'[s] # fired[s] =>
                \A i \in 1..Len(fired[s]) : fired[s][i] # fired'[s][Len(fired'[s])]]_vars

\* C5 witness: an instance has fired all its thresholds, and a further call
\* returned False
C5_Witness ==
    /\ Len(fired["t_desc"]) = Len(Strategies["t_desc"].bid_times)
    /\ ret = Ret("should_bid", "bool", 0)

\* C6. register_auction on a registered id fails with an error and leaves
\* the existing record unchanged.
C6_DuplicateRejected ==
    [][\A id \in AuctionIds, s \in SpecStrategies, f \in Floors, c \in Caps :
          (id \in Registered /\ RegisterAuction(id, s, f, c))
          => (ret'.kind = "error" /\ active_auctions' = active_auctions)]_vars

\* C7. bid_history is append-only: as long as the id is not removed, the
\* history before a step is a prefix of the history after it.
C7_HistoryAppendOnly ==
    [][\A id \in Registered :
          id \in DOMAIN active_auctions' =>
              IsPrefix(active_auctions[id].bid_history,
                       active_auctions'[id].bid_history)]_vars

\* C8. Two concurrent process_bid calls on one auction: when both have
\* returned, bids_count <= max_bids and bids_count is the length of
\* bid_history.
C8_ConcurrentCallsSerialized ==
    (\A t \in Threads : pc[t] = "done") =>
        /\ active_auctions[ConcId].bids_count = Len(active_auctions[ConcId].bid_history)
        /\ active_auctions[ConcId].max_bids # None =>
              active_auctions[ConcId].bids_count <= active_auctions[ConcId].max_bids[1]

\* C9. Between the calls of a sequential caller, bids_count equals the
\* length of bid_history for every registered auction.
C9_CountIsHistoryLength ==
    \A id \in Registered :
        active_auctions[id].bids_count = Len(active_auctions[id].bid_history)

\* C9 witness: a second bid has just been accepted
C9_Witness ==
    /\ ret.op = "process_bid" /\ ret.kind = "bid"
    /\ \E id \in Registered : Len(active_auctions[id].bid_history) = 2

\* C10. last_bid is None when bid_history is empty, and otherwise the value
\* of its last entry.
C10_LastBidIsLastEntry ==
    \A id \in Registered :
        LET h == active_auctions[id].bid_history IN
        IF h = << >> THEN active_auctions[id].last_bid = None
        ELSE active_auctions[id].last_bid = Some(h[Len(h)].value)

\* C10 witness: two bids of different value accepted, the last one returned
C10_Witness ==
    \E id \in Registered :
        LET h == active_auctions[id].bid_history IN
        /\ Len(h) = 2
        /\ h[1].value # h[2].value
        /\ ret = Ret("process_bid", "bid", h[2].value)

\* the auction has max_bids set and has taken that many bids
Exhausted(auction) ==
    auction.max_bids # None /\ auction.bids_count >= auction.max_bids[1]

\* C11. A process_bid that accepts a bid increments bids_count by exactly
\* one, appends exactly one entry (the value calculate_bid gives for the
\* price of the call, and that price), sets last_bid to that value and
\* returns it; the strategy was consulted once (a timed strategy announced
\* exactly one index, the one its cursor now holds).
C11_AcceptedBidRecorded ==
    [][(ret'.op = "process_bid" /\ ret'.kind = "bid") =>
          \E id \in AuctionIds \cap Registered :
             /\ id \in DOMAIN active_auctions'
             /\ LET a == active_auctions[id]
                    b == active_auctions'[id]
                    s == a.strategy
                IN  /\ b.bids_count = a.bids_count + 1
                    /\ Len(b.bid_history) = Len(a.bid_history) + 1
                    /\ IsPrefix(a.bid_history, b.bid_history)
                    /\ b.bid_history[Len(b.bid_history)].value = ret'.value
                    /\ b.last_bid = Some(ret'.value)
                    /\ b = [a EXCEPT !.bids_count = b.bids_count,
                                     !.bid_history = b.bid_history,
                                     !.last_bid = b.last_bid]
                    /\ IF s \in TimedIds
                       THEN /\ fired'[s] = Append(fired[s], last_bid_time_index'[s])
                            /\ last_bid_time_index'[s] > last_bid_time_index[s]
                       ELSE fired' = fired /\ last_bid_time_index' = last_bid_time_index
                    /\ \E p \in Prices, kw \in KwArgs, tie \in BOOLEAN :
                          /\ b.bid_history[Len(b.bid_history)].current_price = p
                          /\ ret'.value =
                                BidValue(a, IF s \in TimedIds
                                            THEN last_bid_time_index'[s] ELSE 0, p, kw, tie)]_vars

\* C11 witness: a timed auction has just taken its second bid
C11_Witness ==
    /\ ret.op = "process_bid" /\ ret.kind = "bid"
    /\ \E id \in Registered :
          /\ active_auctions[id].strategy \in TimedIds
          /\ active_auctions[id].bids_count = 2
          /\ Len(fired[active_auctions[id].strategy]) >= 2

\* C12. A process_bid on an auction whose bids_count has reached max_bids
\* returns "no bid" and leaves the record and every cursor unchanged (the
\* strategy is not consulted).
C12_CapShortCircuits ==
    [][(/\ ret'.op = "process_bid"
        /\ \A id \in AuctionIds : id \in Registered /\ Exhausted(active_auctions[id]))
       => (/\ ret'.kind = "none"
           /\ UNCHANGED <<active_auctions, last_bid_time_index, fired>>)]_vars

\* C12 witness: max_bids = 1, one bid taken, the next process_bid refused,
\* on a timed strategy that still has thresholds left
C12_Witness ==
    /\ ret = Ret("process_bid", "none", 0)
    /\ \E id \in Registered :
          /\ active_auctions[id].max_bids = Some(1)
          /\ active_auctions[id].bids_count = 1
          /\ active_auctions[id].strategy = "t_desc"
          /\ last_bid_time_index["t_desc"] = 0

\* C13. A process_bid that returns "no bid" (should_bid returned False, the
\* cap was reached or the id is unknown) changes no state: the records and
\* the cursors of the timed strategies are as before; the same holds for a
\* should_bid called on the strategy itself that returns False.
C13_RefusalChangesNothing ==
    [][((ret'.op = "process_bid" /\ ret'.kind = "none")
        \/ (ret'.op = "should_bid" /\ ret'.value = 0))
       => UNCHANGED <<active_auctions, last_bid_time_index, fired>>]_vars

\* C13 witness: should_bid refused on an auction below its cap: a timed
\* strategy in the middle of its schedule, one bid taken, none this time
C13_Witness ==
    /\ ret = Ret("process_bid", "none", 0)
    /\ \E id \in Registered :
          /\ active_auctions[id].max_bids = None
          /\ active_auctions[id].strategy = "t_desc"
          /\ active_auctions[id].bids_count = 1
          /\ last_bid_time_index["t_desc"] = 1

\* C14. Exhausted is terminal until removal: as long as the id stays
\* registered its bids_count never decreases, and an auction that has
\* reached max_bids stays at max_bids.
C14_ExhaustedIsTerminal ==
    [][\A id \in Registered :
          id \in DOMAIN active_auctions' =>
             /\ active_auctions'[id].bids_count >= active_auctions[id].bids_count
             /\ Exhausted(active_auctions[id]) => Exhausted(active_auctions'[id])]_vars

\* C15. process_bid on an id that is not registered returns "no bid",
\* creates no record and leaves the registry and the cursors unchanged.
C15_UnknownIdIgnored ==
    [][(ret'.op = "process_bid" /\ \A id \in AuctionIds : id \notin Registered)
       => (/\ ret'.kind = "none"
           /\ UNCHANGED <<active_auctions, last_bid_time_index, fired>>)]_vars

\* C15 witness: process_bid has returned "no bid" with nothing registered,
\* after an auction was registered, looked at and removed
C15_Witness ==
    /\ ret = Ret("process_bid", "none", 0)
    /\ Registered = {}
    /\ status.value # << >>

\* the two baseline rules of should_bid, on the arguments of a call
AlreadyLeading(a) == a.my_last_bid # None /\ a.my_last_bid[1] <= a.current_price
AtOrUnderFloor(a) == a.min_price # None /\ a.current_price <= a.min_price[1]

\* C16. should_bid of either strategy returns False whenever my_last_bid is
\* set and <= current_price, and whenever min_price is set and
\* current_price <= min_price, whatever seconds_remaining and the cursor
\* are; MinimalDecreaseStrategy returns True in every other case.
C16_BaselineEligibility ==
    (ret.op = "should_bid" /\ args.strategy \in StrategyIds) =>
       /\ (AlreadyLeading(args) \/ AtOrUnderFloor(args)) => ret.value = 0
       /\ (args.strategy \in MinimalIds /\ ~AlreadyLeading(args) /\ ~AtOrUnderFloor(args))
             => ret.value = 1

\* C16 witness: a timed strategy asked at a threshold it has not fired yet,
\* with my_last_bid equal to the price, has refused
C16_Witness ==
    /\ ret = Ret("should_bid", "bool", 0)
    /\ args.strategy = "t_desc"
    /\ args.my_last_bid = Some(100000) /\ args.current_price = 100000
    /\ args.min_price = None
    /\ args.seconds_remaining = Some(10)
    /\ last_bid_time_index["t_desc"] = 0

\* the decrement in thousandths of a mill: the percent amount when the
\* percent is positive and the amount strictly greater than the fixed one
Decrement(current_price, min_decrease_value, min_decrease_percent) ==
    IF min_decrease_percent > 0 /\ current_price * min_decrease_percent > min_decrease_value * 1000
    THEN current_price * min_decrease_percent
    ELSE min_decrease_value * 1000

\* v (mills) is x (thousandths of a mill) rounded to 2 decimals
IsRounded(v, x) == v % 10 = 0 /\ v * 1000 - x <= 5000 /\ x - v * 1000 <= 5000

\* C17. MinimalDecreaseStrategy.calculate_bid is current_price - d rounded
\* to 2 decimals, d the percent amount if the percent is positive and the
\* amount strictly greater than min_decrease_value, else min_decrease_value;
\* (0.01, 0.1) gives 99.9 at 100.0 and 9.99 at 10.0.
C17_MinimalCalculateBid ==
    (ret.op = "calculate_bid" /\ args.strategy \in MinimalIds) =>
       LET c == Strategies[args.strategy] IN
       /\ IsRounded(ret.value,
                    args.current_price * 1000
                      - Decrement(args.current_price, c.min_decrease_value,
                                  c.min_decrease_percent))
       /\ (args.strategy = "m_pct" /\ args.current_price = 100000) => ret.value = 99900
       /\ (args.strategy = "m_pct" /\ args.current_price = 10000) => ret.value = 9990

\* C17 witness: (0.01, 0.1) has answered 99.9 at 100.0
C17_Witness ==
    /\ ret = Ret("calculate_bid", "bid", 99900)
    /\ args.strategy = "m_pct" /\ args.current_price = 100000

\* C18. TimedStrategy.calculate_bid: with aggressive_final_bid and the
\* cursor >= len(bid_times) - 2 the result is current_price minus twice the
\* decrement (the larger of 2 * min_decrease_value and twice the percent
\* amount, the latter only if the percent is positive and strictly larger),
\* rounded to 2 decimals; otherwise it is what MinimalDecreaseStrategy gives
\* for the same min_decrease_value and min_decrease_percent; the cursor is
\* never changed.
C18_TimedCalculateBid ==
    [][(ret'.op = "calculate_bid" /\ args'.strategy \in TimedIds) =>
          LET a == args'
              d == Decrement(a.current_price, a.kw.min_decrease_value,
                             a.kw.min_decrease_percent)
              final == last_bid_time_index[a.strategy]
                          >= Len(Strategies[a.strategy].bid_times) - 2
          IN  /\ last_bid_time_index' = last_bid_time_index
              /\ fired' = fired
              /\ IsRounded(ret'.value,
                           a.current_price * 1000
                             - (IF a.kw.aggressive_final_bid /\ final THEN 2 * d ELSE d))]_vars

\* C18 witness: an aggressive bid (twice 0.1% of 100.0) with the cursor at
\* the second-to-last threshold, and the cursor still there
C18_Witness ==
    /\ ret = Ret("calculate_bid", "bid", 99800)
    /\ args.strategy = "t_desc" /\ args.current_price = 100000
    /\ args.kw.aggressive_final_bid
    /\ last_bid_time_index["t_desc"] = 1

\* C19. A fresh TimedStrategy([60, 30, 10, 3]) without random delay, asked
\* at 120, 60, 40, 30, 15, 10, 5, 3, 1 seconds at price 100.0 with
\* min_price 90.0, answers True exactly at 60, 30, 10 and 3 (four bids, the
\* indices 0, 1, 2, 3 once each) and False at every other call.
C19_ScenarioC ==
    /\ \A k \in 1..Len(countdown) :
          (\A j \in 1..k : countdown[j].seconds = Clock[j]) =>
             (countdown[k].should_bid = 1 <=> countdown[k].seconds \in {60, 30, 10, 3})
    /\ \A i, j \in 1..Len(fired["t_main"]) :
          fired["t_main"][i] = fired["t_main"][j] => i = j
    /\ Len(countdown) = Len(Clock) => fired["t_main"] = <<0, 1, 2, 3>>

\* C19 witness: all nine calls made, four of them answered True
C19_Witness ==
    /\ Len(countdown) = Len(Clock)
    /\ Cardinality({k \in 1..Len(countdown) : countdown[k].should_bid = 1}) = 4
    /\ last_bid_time_index["t_main"] = 3

\* C20. get_auction_status changes neither the registry nor any record nor
\* a cursor, returns the record's fields for a registered id and an empty
\* result for an unknown one; the value it returned stays as it was
\* returned until the caller asks again, whatever process_bid does later.
C20_StatusIsSnapshot ==
    [][/\ ret'.op = "get_auction_status" =>
             /\ UNCHANGED <<active_auctions, last_bid_time_index, fired>>
             /\ \A id \in AuctionIds :
                   IF id \in Registered
                   THEN ret'.kind = "record" /\ status'.value = active_auctions[id]
                   ELSE ret'.kind = "empty" /\ status'.value = << >>
       /\ ret'.op # "get_auction_status" => status'.value = status.value]_vars

\* every id but x keeps its place in the registry and its record
OthersKept(x) ==
    \A y \in TwoIds \ {x} :
       /\ y \in Registered <=> y \in DOMAIN active_auctions'
       /\ y \in Registered => active_auctions'[y] = active_auctions[y]

\* C21. remove_auction on a registered id deletes exactly that record and
\* returns True, on an unregistered id it returns False and changes
\* nothing; the other ids keep their records; process_bid and
\* get_auction_status on an id that is not (or no longer) registered answer
\* "no bid" and the empty result and change nothing.
C21_RemoveAuction ==
    [][/\ ret'.op = "remove_auction" =>
             /\ OthersKept(args'.auction_id)
             /\ args'.auction_id \notin DOMAIN active_auctions'
             /\ ret'.value = (IF args'.auction_id \in Registered THEN 1 ELSE 0)
             /\ UNCHANGED <<last_bid_time_index, fired>>
       /\ (ret'.op \in {"process_bid", "get_auction_status"}
           /\ args'.auction_id \notin Registered) =>
             /\ ret'.kind \in {"none", "empty"}
             /\ UNCHANGED <<active_auctions, last_bid_time_index, fired>>]_vars

\* C21 witness: A, which had taken a bid, has been removed while B, with a
\* bid of its own, stays
C21_Witness ==
    /\ ret = Ret("remove_auction", "bool", 1)
    /\ args.auction_id = "A"
    /\ Registered = {"B"}
    /\ active_auctions["B"].bids_count = 1

\* C22. register_auction on an id that is not present creates a record
\* with the given strategy, min_price and max_bids, bids_count 0, last_bid
\* None and an empty bid_history, and leaves the other ids' records as they
\* are.
C22_RegisterFresh ==
    [][(ret'.op = "register_auction" /\ args'.auction_id \notin Registered) =>
          /\ OthersKept(args'.auction_id)
          /\ args'.auction_id \in DOMAIN active_auctions'
          /\ active_auctions'[args'.auction_id] =
                [ strategy |-> args'.strategy,
                  min_price |-> args'.min_price,
                  max_bids |-> args'.max_bids,
                  bids_count |-> 0,
                  last_bid |-> None,
                  bid_history |-> << >> ]
          /\ UNCHANGED <<last_bid_time_index, fired>>]_vars

\* C22 witness: B registered with a floor and a cap beside A, which has a bid
C22_Witness ==
    /\ ret.op = "register_auction"
    /\ args.auction_id = "B"
    /\ Registered = {"A", "B"}
    /\ active_auctions["A"].bids_count = 1
    /\ active_auctions["B"].min_price = Some(90000)
    /\ active_auctions["B"].max_bids = Some(1)
    /\ active_auctions["B"].bids_count = 0

\* auction x is bound to strategy s before or after the step
BoundTo(x, s) ==
    \/ x \in Registered /\ active_auctions[x].strategy = s
    \/ x \in DOMAIN active_auctions' /\ active_auctions'[x].strategy = s

\* C23. register_auction, process_bid and remove_auction on one id leave
\* every other id's record unchanged, and leave the cursor of the other
\* id's timed strategy unchanged when the two are bound to different
\* strategy instances.
C23_DistinctIdsIndependent ==
    [][ret'.op \in {"register_auction", "process_bid", "remove_auction"} =>
          /\ OthersKept(args'.auction_id)
          /\ \A y \in Registered \ {args'.auction_id} :
                LET s == active_auctions[y].strategy IN
                (s \in TimedIds /\ ~BoundTo(args'.auction_id, s)) =>
                   /\ last_bid_time_index'[s] = last_bid_time_index[s]
                   /\ fired'[s] = fired[s]]_vars

\* C23 witness: A and B on different timed strategies, each with a bid of
\* its own, the last one just taken by A
C23_Witness ==
    /\ ret.op = "process_bid" /\ ret.kind = "bid"
    /\ args.auction_id = "A"
    /\ Registered = {"A", "B"}
    /\ active_auctions["A"].strategy = "t_mix"
    /\ active_auctions["B"].strategy = "t_one"
    /\ active_auctions["A"].bids_count = 1
    /\ active_auctions["B"].bids_count = 1
    /\ fired["t_one"] = <<0>>

\* the registered auctions that hold strategy instance s
Holders(s) == {x \in Registered : active_auctions[x].strategy = s}

\* C25. Two auctions registered with one TimedStrategy instance share its
\* cursor: an index an accepted process_bid consumed on one auction never
\* fires again, for the other auction either, so together the two take at
\* most len(bid_times) bids.
C25_SharedCursor ==
    [][/\ (ret'.op = "process_bid" /\ ret'.kind = "bid" /\ args'.strategy \in TimedIds) =>
             \A k \in 1..Len(fired[args'.strategy]) :
                fired[args'.strategy][k] < last_bid_time_index'[args'.strategy]
       /\ \A s \in TimedIds :
             (\A x \in TwoIds : x \in DOMAIN active_auctions'
                                 /\ active_auctions'[x].strategy = s) =>
                active_auctions'["A"].bids_count + active_auctions'["B"].bids_count
                   <= Len(Strategies[s].bid_times)]_vars

\* C25 witness: A and B hold the one-threshold strategy; A took the bid at
\* index 0, and B, asked at 10 seconds with nothing else against a bid, was
\* refused
C25_Witness ==
    /\ ret = Ret("process_bid", "none", 0)
    /\ Holders("t_one") = {"A", "B"}
    /\ active_auctions["A"].bids_count = 1
    /\ active_auctions["B"].bids_count = 0
    /\ args.auction_id = "B" /\ args.strategy = "t_one"
    /\ args.seconds_remaining = Some(10)
    /\ MinimalShouldBid(args.current_price, args.my_last_bid, args.min_price)

\* C27. An auction whose TimedStrategy instance no other auction holds
\* never has more accepted bids than the strategy has bid_times, whatever
\* max_bids is.
C27_BidsWithinSchedule ==
    \A x \in Registered :
       LET s == active_auctions[x].strategy IN
       (s \in TimedIds /\ Holders(s) = {x}) =>
          active_auctions[x].bids_count <= Len(Strategies[s].bid_times)

\* C27 witness: max_bids unset, the single threshold consumed, and one more
\* process_bid at a lower price and 10 seconds refused by the strategy
C27_Witness ==
    /\ ret = Ret("process_bid", "none", 0)
    /\ args.auction_id = "A" /\ args.strategy = "t_one"
    /\ Holders("t_one") = {"A"}
    /\ active_auctions["A"].max_bids = None
    /\ active_auctions["A"].bids_count = 1
    /\ args.seconds_remaining = Some(10)
    /\ MinimalShouldBid(args.current_price, args.my_last_bid, args.min_price)

\* the last call was process_bid without seconds_remaining on a registered
\* auction whose strategy is of the given kind
WithoutSeconds(kind) ==
    /\ ret'.op = "process_bid"
    /\ args'.seconds_remaining = None
    /\ args'.auction_id \in Registered
    /\ Strategies[active_auctions[args'.auction_id].strategy].kind = kind

\* C30 as stated. process_bid without seconds_remaining on an auction bound
\* to a TimedStrategy ends in an error raised to the caller and changes
\* nothing.
C30_TimedNeedsSeconds ==
    [][WithoutSeconds("timed") =>
          /\ ret'.kind = "error"
          /\ UNCHANGED <<active_auctions, last_bid_time_index, fired>>]_vars

\* C30, amended. process_bid without seconds_remaining on an auction bound
\* to a TimedStrategy that has not reached max_bids ends in an error raised
\* to the caller, with the record and the cursor unchanged; once max_bids
\* is reached it returns "no bid" like any other call.  On an auction bound
\* to a MinimalDecreaseStrategy the call returns a bid when the two rules
\* of should_bid allow one and "no bid" otherwise.
C30_TimedNeedsSecondsBelowCap ==
    [][/\ WithoutSeconds("timed") =>
             /\ ret'.kind = (IF Exhausted(active_auctions[args'.auction_id])
                             THEN "none" ELSE "error")
             /\ UNCHANGED <<active_auctions, last_bid_time_index, fired>>
       /\ WithoutSeconds("minimal") =>
             LET a == active_auctions[args'.auction_id] IN
             ret'.kind = (IF ~Exhausted(a)
                             /\ ~(a.last_bid # None /\ a.last_bid[1] <= args'.current_price)
                             /\ ~(a.min_price # None /\ args'.current_price <= a.min_price[1])
                          THEN "bid" ELSE "none")]_vars

\* C30 witness: the error, on a timed auction that has a bid and no cap
C30_Witness ==
    /\ ret = Ret("process_bid", "error", 0)
    /\ args.seconds_remaining = None
    /\ args.auction_id \in Registered
    /\ active_auctions[args.auction_id].strategy = "t_mix"
    /\ active_auctions[args.auction_id].bids_count = 1
    /\ active_auctions[args.auction_id].max_bids = None

\* the indices after the cursor of s whose threshold, raised by extra, has
\* been reached at seconds_remaining
Reached(s, cursor, seconds_remaining, extra) ==
    {i \in 0..(Len(Strategies[s].bid_times) - 1) :
        i > cursor /\ seconds_remaining <= Strategies[s].bid_times[i + 1] + extra}

\* the least element of a non-empty set of indices
Lowest(S) == CHOOSE i \in S : \A j \in S : i <= j

\* the last call was should_bid on a timed strategy, with or without
\* random delay, and neither rule of should_bid was against a bid
EligibleCall(random_delay) ==
    /\ ret'.op = "should_bid"
    /\ args'.strategy \in TimedIds
    /\ Strategies[args'.strategy].random_delay = random_delay
    /\ ~AlreadyLeading(args') /\ ~AtOrUnderFloor(args')

C26_JitterBounds ==
    [][EligibleCall(TRUE) =>
          LET s == args'.strategy
              sec == args'.seconds_remaining[1]
              sure == Reached(s, last_bid_time_index[s], sec, 0)
              may == Reached(s, last_bid_time_index[s], sec, Strategies[s].max_random_delay)
          IN  /\ sure # {} => ret'.value = 1
              /\ ret'.value = 1 => last_bid_time_index'[s] \in may
              /\ ret'.value = 0 => UNCHANGED <<last_bid_time_index, fired>>]_vars

\* C26 witness: [30, 10] with delay up to 2 has fired index 0 at 32
\* seconds, and asked again at 12 seconds it has not fired index 1 (a new
\* delay was drawn for that threshold, below 2)
C26_Witness ==
    /\ args.strategy = "t_rnd" /\ args.seconds_remaining = Some(12)
    /\ countdown = <<[seconds |-> 12, should_bid |-> 0]>>
    /\ fired["t_rnd"] = <<0>>

\* bid_times of s strictly descending
Descending(s) ==
    \A i, j \in 1..Len(Strategies[s].bid_times) :
       i < j => Strategies[s].bid_times[i] > Strategies[s].bid_times[j]

\* how many calls of a run returned True
Trues(run) == Cardinality({j \in 1..Len(run) : run[j].should_bid = 1})

C29_HistoryDecreasing ==
    \A id \in Registered :
       LET h == active_auctions[id].bid_history IN
       /\ \A j \in 2..Len(h) : h[j - 1].value > h[j].current_price
       /\ (\A j \in 1..Len(h) : h[j].value < h[j].current_price) =>
             \A j \in 2..Len(h) : h[j - 1].value > h[j].value

\* C29 witness: two bids of MinimalDecreaseStrategy(0.01, 0.1), each below
\* its price
C29_Witness ==
    \E id \in Registered :
       LET h == active_auctions[id].bid_history IN
       /\ active_auctions[id].strategy = "m_pct"
       /\ Len(h) = 2
       /\ \A j \in 1..2 : h[j].value < h[j].current_price

====
